---- MODULE Spec2Model ----
(***************************************************************************)
(* InvestLink front end as state machines: the SwipeRecommendations        *)
(* component (src/unnamed/part_000), the InteractionHistory component      *)
(* (src/Frontend/src/components/InteractionHistory.jsx), the SearchBar     *)
(* (src/unnamed/part_001) and the profile pages InvestorProfile and        *)
(* CompanyProfile (src/unnamed/part_003, part_004).                        *)
(* The useState cells are the program state; the requests in flight        *)
(* (recommendation fetches, swipe POSTs with their follow-up timers, list  *)
(* reads and status PUTs, searches, lookups) and the server's interactions *)
(* are the environment.  Every action is one run-to-completion piece of    *)
(* JavaScript: an event handler up to its first await, or the continuation *)
(* after an await or a timer.  Spec runs SwipeRecommendations (FairSpec:   *)
(* with a network and timers that complete), ScenarioSpec one session on a *)
(* fixed batch, HistorySpec InteractionHistory, SearchSpec the SearchBar,  *)
(* ProfileSpec a profile page, PairingSpec the requests a viewer's         *)
(* components build; each leaves the other components as constructed.     *)
(***************************************************************************)
EXTENDS Integers, Sequences, FiniteSets, TLC

(* ------------------------------ bounds -------------------------------- *)

\* Longest batch the server returns (the code asks for num=5, a hint only);
\* the server draws its candidates from as many ids.
MaxBatch == 2
\* Recommendation fetches in flight at once.
MaxFetches == 2
\* Swipe handlers (POST or timer pending) in flight at once.
MaxSwipes == 2
\* fetchHistory requests in flight at once.
MaxReads == 2
\* updateInteraction PUTs in flight at once.
MaxPuts == 1
\* Viewer ids a dashboard is opened with.
MaxViewers == 4
\* Search requests in flight at once.
MaxSearches == 2
\* Profile lookups in flight at once.
MaxLookups == 2
\* Like/pass POSTs of a profile page in flight at once.
MaxPosts == 2

(* ------------------------------ values -------------------------------- *)

None == "null"
Undefined == 0
FailedToLoad == "Failed to load recommendations"

Candidates == 1..MaxBatch
Types == {"investor", "company"}

\* The sequences of length n over S without repetition.
RECURSIVE DistinctSeqs(_, _)
DistinctSeqs(S, n) ==
  IF n = 0 THEN {<<>>}
  ELSE UNION {{Append(q, c) : c \in S \ {q[i] : i \in 1..Len(q)}} :
              q \in DistinctSeqs(S, n - 1)}

\* A SwipeBatch: a non-empty ordered list of distinct candidates.
Batches == UNION {DistinctSeqs(Candidates, n) : n \in 1..MaxBatch}

\* What a recommendations request can be answered with: an HTTP status class
\* and a body that is JSON with a recommendations list (possibly empty), JSON
\* without that field (an error object, for one), or not JSON at all.
FetchResponses ==
  {[status |-> "ok", body |-> "list", recs |-> b] : b \in Batches \cup {<<>>}}
  \cup {[status |-> "ok", body |-> "absent", recs |-> <<>>]}
  \cup {[status |-> "error", body |-> b, recs |-> <<>>] : b \in {"absent", "text"}}

PostStatuses == {"ok", "error"}

\* new_status of the PUT body: 1 = like, 0 = dislike, -1 = remove entirely.
Like == 1
Dislike == 0
Removed == -1
Statuses == {Like, Dislike, Removed}
\* updating === null: no row is being updated (the ids of rows are positive).
NoTarget == 0

\* The ids a viewer can have.
Viewers == 1..MaxViewers

(* ------------------------------- state -------------------------------- *)

VARIABLES
  type,                \* prop: "investor" | "company" (userId is an opaque,
                       \* present id: the dashboards redirect without one)
  recommendations,     \* useState([])
  currentIndex,        \* useState(0)
  loading,             \* useState(false)
  swiping,             \* useState(null): "left" | "right" | null
  noMore,              \* useState(false)
  error,               \* useState(null)
  pc,                  \* "init" before the mount effect has run, then "mounted"
  fetches,             \* recommendation requests in flight, in issue order
  swipes,              \* handleSwipe invocations past their guard, in issue order
  acks,                \* history: timer callbacks run on the installed batch
  cleanBatch,          \* history: no swipe was in flight when the batch arrived
                       \* and every POST acknowledged on it was answered 2xx
  last,                \* history: the last operation and what it saw (in
                       \* InteractionHistory: the last request that completed)
  lastPost,            \* history: the last swipe POST sent on the installed batch
  \* InteractionHistory (src/Frontend/src/components/InteractionHistory.jsx)
  historyLiked,        \* liked, useState([]): ids of the displayed liked list
  historyDisliked,     \* disliked, useState([]): ids of the disliked list
  historyLoading,      \* loading, useState(true)
  activeList,          \* useState("liked"): "liked" | "disliked"
  updating,            \* useState(null): id of the item being updated
  interactions,        \* the server's Interaction of the viewer with each target
  reads,               \* fetchHistory requests in flight, in issue order
  puts,                \* updateInteraction PUTs in flight, in issue order
  faultless,           \* history: every request so far got through and was
                       \* answered 2xx with the body it asks for
  \* the requests of a viewer
  request,             \* the request a component of the viewer has built last
  \* SearchBar (src/unnamed/part_001)
  query,               \* useState("")
  results,             \* useState([]): ids of the entities found
  searchLoading,       \* loading, useState(false)
  showResults,         \* useState(false)
  timer,               \* the pending debounce timer: the query it closed over
  searches,            \* performSearch requests in flight, in issue order
  \* InvestorProfile (src/unnamed/part_003), CompanyProfile (part_004)
  page,                \* the page: "investor" (InvestorProfile) | "company"
  viewerId,            \* searchParams.get("viewer"): an id, or absent
  viewerType,          \* searchParams.get("viewerType"): a role, or absent
  profile,             \* useState(null)
  profileLoading,      \* loading, useState(true)
  profileError,        \* error, useState(null)
  interacting,         \* useState(false)
  interactionDone,     \* useState(null): "liked" | "disliked" | null
  lookups,             \* fetchProfile requests in flight, in issue order
  posts                \* handleInteraction POSTs in flight, in issue order

state == <<recommendations, currentIndex, loading, swiping, noMore, error>>
\* The variables of the SwipeRecommendations component and its requests.
swipeVars == <<recommendations, currentIndex, loading, swiping, noMore, error,
               fetches, swipes, acks, cleanBatch, lastPost>>
\* The variables of the InteractionHistory component, its requests and server.
historyVars == <<historyLiked, historyDisliked, historyLoading, activeList, updating,
                 interactions, reads, puts, faultless>>
\* The variables of the SearchBar component and its requests.
searchVars == <<query, results, searchLoading, showResults, timer, searches>>
\* The variables of a profile page and its requests.
profileVars == <<page, viewerId, viewerType, profile, profileLoading, profileError,
                 interacting, interactionDone, lookups, posts>>
\* The variables of the other components.
otherVars == <<request, searchVars, profileVars>>
\* All but the request of a viewer, all but the SearchBar, all but the
\* profile page.
outsidePairing == <<swipeVars, historyVars, searchVars, profileVars>>
outsideSearch == <<swipeVars, historyVars, request, profileVars>>
outsideProfile == <<swipeVars, historyVars, request, searchVars>>
vars == <<type, pc, last, swipeVars, historyVars, otherVars>>

isInvestor == type = "investor"

\* const current = recommendations[currentIndex] (0-based in the source).
current ==
  IF currentIndex < Len(recommendations)
  THEN recommendations[currentIndex + 1] ELSE Undefined

\* The view the render function selects, in the order of its early returns.
View ==
  IF loading /\ Len(recommendations) = 0 THEN "loading"
  ELSE IF noMore \/ current = Undefined THEN "exhausted"
  ELSE IF error # None THEN "error"
  ELSE "ready"

\* disabled={swiping} on the Like and Pass buttons.
ButtonDisabled == swiping # None

RemoveAt(q, i) == SubSeq(q, 1, i - 1) \o SubSeq(q, i + 1, Len(q))

\* History record of an operation: what it was and which case of it ran.
Op(name, kind) == [op |-> name, kind |-> kind]

\* No swipe POST has been sent on the installed batch.
NoPost == [pos |-> -1, failed |-> FALSE]

\* No request has been built.
NoRequest ==
  [api |-> "", method |-> "", viewer |-> "", viewerId |-> Undefined,
   target |-> "", targetId |-> Undefined, body |-> "", from |-> ""]

\* No debounce timer is pending.
NoTimer == "none"

\* SearchBar as constructed, its effects not yet run.
SearchIdle ==
  /\ query = ""
  /\ results = <<>>
  /\ searchLoading = FALSE
  /\ showResults = FALSE
  /\ timer = NoTimer
  /\ searches = <<>>

\* A profile page as constructed, opened without parameters.
ProfileIdle ==
  /\ page = "investor"
  /\ viewerId = Undefined
  /\ viewerType = None
  /\ profile = None
  /\ profileLoading = TRUE
  /\ profileError = None
  /\ interacting = FALSE
  /\ interactionDone = None
  /\ lookups = <<>>
  /\ posts = <<>>

\* The other components as constructed (they are left alone).
OthersIdle ==
  /\ request = NoRequest
  /\ SearchIdle
  /\ ProfileIdle

\* InteractionHistory as constructed, its effect not yet run, with a viewer
\* who has no interactions (the component is left alone in Spec).
HistoryIdle ==
  /\ historyLiked = {}
  /\ historyDisliked = {}
  /\ historyLoading = TRUE
  /\ activeList = "liked"
  /\ updating = NoTarget
  /\ interactions = [t \in Candidates |-> Removed]
  /\ reads = <<>>
  /\ puts = <<>>
  /\ faultless = TRUE

\* SwipeRecommendations as constructed, its effect not yet run (the component
\* is left alone outside Spec).
SwipeIdle ==
  /\ recommendations = <<>>
  /\ currentIndex = 0
  /\ loading = FALSE
  /\ swiping = None
  /\ noMore = FALSE
  /\ error = None
  /\ fetches = <<>>
  /\ swipes = <<>>
  /\ acks = 0
  /\ cleanBatch = TRUE
  /\ lastPost = NoPost

Init ==
  /\ type \in Types
  /\ recommendations = <<>>
  /\ currentIndex = 0
  /\ loading = FALSE
  /\ swiping = None
  /\ noMore = FALSE
  /\ error = None
  /\ pc = "init"
  /\ fetches = <<>>
  /\ swipes = <<>>
  /\ acks = 0
  /\ cleanBatch = TRUE
  /\ last = Op("init", "")
  /\ lastPost = NoPost
  /\ HistoryIdle
  /\ OthersIdle

(* ----------------------- fetchRecommendations ------------------------- *)

\* A faulty variant of fetchRecommendations that also clears noMore when the
\* request leaves, as if the finished batch could be shown again.
fetchRecommendationsClearsNoMore(t, n) ==
  /\ Len(fetches) + n <= MaxFetches
  /\ loading' = TRUE
  /\ error' = None
  /\ noMore' = FALSE
  /\ fetches' = fetches \o [i \in 1..n |-> [role |-> t, late |-> FALSE]]
  /\ UNCHANGED <<recommendations, currentIndex, swiping, swipes, acks,
               cleanBatch, lastPost>>

\* fetchRecommendations up to its await, called n times in a row by a viewer
\* of type t: setLoading(true); setError(null); the request leaves.
fetchRecommendations(t, n) ==
  /\ Len(fetches) + n <= MaxFetches
  /\ loading' = TRUE
  /\ error' = None
  /\ fetches' = fetches \o [i \in 1..n |-> [role |-> t, late |-> FALSE]]
  /\ UNCHANGED <<recommendations, currentIndex, swiping, noMore, swipes, acks,
               cleanBatch, lastPost>>

\* The mount effect: if (userId) fetchRecommendations().  Under StrictMode
\* (main.jsx) a development build runs the effect twice.
Mount(strict) ==
  /\ pc = "init"
  /\ pc' = "mounted"
  /\ last' = Op("mount", IF strict THEN "strict" ELSE "")
  /\ UNCHANGED <<historyVars, otherVars>>
  /\ UNCHANGED type
  /\ fetchRecommendations(type, IF strict THEN 2 ELSE 1)

\* The dashboard passes another userId (its id query parameter changed; each
\* dashboard passes its own type as a literal): the effect runs again.
ViewerChange ==
  /\ pc = "mounted"
  /\ last' = Op("viewerChange", "")
  /\ UNCHANGED <<historyVars, otherVars>>
  /\ UNCHANGED <<type, pc>>
  /\ fetchRecommendations(type, 1)

\* The Load More button of the "All caught up!" view.
LoadMore ==
  /\ pc = "mounted"
  /\ View = "exhausted"
  /\ last' = Op("loadMore", "")
  /\ UNCHANGED <<historyVars, otherVars>>
  /\ UNCHANGED <<type, pc>>
  /\ fetchRecommendations(type, 1)

\* The Try Again button of the error view.
TryAgain ==
  /\ pc = "mounted"
  /\ View = "error"
  /\ last' = Op("tryAgain", "")
  /\ UNCHANGED <<historyVars, otherVars>>
  /\ UNCHANGED <<type, pc>>
  /\ fetchRecommendations(type, 1)

\* await response.json(): rejects when the body is not JSON.
JsonParses(r) == r.body # "text"

\* data.recommendations && data.recommendations.length > 0
HasRecommendations(r) == r.body = "list" /\ Len(r.recs) > 0

\* The requests left in flight when request i completes: those issued before
\* it are overtaken (late), their responses are still to come.
MarkLate(q, i) ==
  RemoveAt([j \in 1..Len(q) |-> IF j < i THEN [q[j] EXCEPT !.late = TRUE] ELSE q[j]], i)

\* A swipe in flight whose batch has been replaced under it.
MarkStale(q) == [i \in 1..Len(q) |-> [q[i] EXCEPT !.stale = TRUE]]

\* A faulty variant of ApplyRecommendations that reports a response without
\* recommendations as a failure.
ApplyRecommendationsEmptyFails(r) ==
  IF HasRecommendations(r)
  THEN /\ recommendations' = r.recs
       /\ currentIndex' = 0
       /\ noMore' = FALSE
       /\ swipes' = MarkStale(swipes)
       /\ acks' = 0
       /\ cleanBatch' = (swipes = <<>>)
       /\ UNCHANGED error
  ELSE /\ error' = FailedToLoad
       /\ UNCHANGED <<recommendations, currentIndex, noMore, swipes, acks,
                      cleanBatch>>

\* The branch on the parsed response (lines 38-44).
ApplyRecommendations(r) ==
  IF HasRecommendations(r)
  THEN /\ recommendations' = r.recs
       /\ currentIndex' = 0
       /\ noMore' = FALSE
       /\ swipes' = MarkStale(swipes)
       /\ acks' = 0
       /\ cleanBatch' = (swipes = <<>>)
       /\ UNCHANGED error
  ELSE /\ noMore' = TRUE
       /\ UNCHANGED <<recommendations, currentIndex, error, swipes, acks,
                      cleanBatch>>

\* catch (err) { setError("Failed to load recommendations") }
FetchCatch ==
  /\ error' = FailedToLoad
  /\ UNCHANGED <<recommendations, currentIndex, noMore, swipes, acks,
                 cleanBatch>>

FetchKind(r) ==
  IF r.status = "error" THEN (IF r.body = "text" THEN "http_text" ELSE "http_json")
  ELSE IF HasRecommendations(r) THEN "list" ELSE "empty"

\* Request i is answered with r: the continuation after await fetch(...).
FetchResolves(i, r) ==
  /\ i \in 1..Len(fetches)
  /\ fetches' = MarkLate(fetches, i)
  /\ last' = Op("fetchDone", FetchKind(r))
  /\ UNCHANGED <<historyVars, otherVars>>
  /\ IF JsonParses(r) THEN ApplyRecommendations(r) ELSE FetchCatch
  /\ loading' = FALSE
  /\ lastPost' = IF JsonParses(r) /\ HasRecommendations(r) THEN NoPost ELSE lastPost
  /\ UNCHANGED <<type, pc, swiping>>

\* Request i fails in transport: fetch() rejects.
FetchRejects(i) ==
  /\ i \in 1..Len(fetches)
  /\ fetches' = MarkLate(fetches, i)
  /\ last' = Op("fetchDone", "reject")
  /\ UNCHANGED <<historyVars, otherVars>>
  /\ FetchCatch
  /\ loading' = FALSE
  /\ UNCHANGED <<type, pc, swiping, lastPost>>

(* ---------------------------- handleSwipe ----------------------------- *)

\* A faulty variant of SwipeGuard that forgets the pending decision.
SwipeGuardNoPending == currentIndex >= Len(recommendations)

\* if (swiping || currentIndex >= recommendations.length) return;
SwipeGuard == swiping # None \/ currentIndex >= Len(recommendations)

\* A faulty variant of BeginSwipe that advances the cursor with the click.
BeginSwipeOptimistic(liked) ==
  /\ Len(swipes) < MaxSwipes
  /\ swiping' = (IF liked THEN "right" ELSE "left")
  /\ swipes' = Append(swipes,
       [phase |-> "post", liked |-> liked, idx |-> currentIndex,
        len |-> Len(recommendations), target |-> current, role |-> type,
        status |-> "", stale |-> FALSE])
  /\ currentIndex' = currentIndex + 1
  /\ UNCHANGED <<recommendations, loading, noMore, error>>

\* handleSwipe past its guard (lines 63-77): the handler closes over
\* currentIndex and recommendations, calls setSwiping and sends the POST.
BeginSwipe(liked) ==
  /\ Len(swipes) < MaxSwipes
  /\ swiping' = (IF liked THEN "right" ELSE "left")
  /\ swipes' = Append(swipes,
       [phase |-> "post", liked |-> liked, idx |-> currentIndex,
        len |-> Len(recommendations), target |-> current, role |-> type,
        status |-> "", stale |-> FALSE])
  /\ UNCHANGED <<recommendations, currentIndex, loading, noMore, error>>

\* A call of handleSwipe(liked) from the rendered card.  The handler exists
\* only while the card view is rendered; the call is modelled whether or not
\* the button is disabled, so that the guard of line 61 is what decides.
HandleSwipe(liked) ==
  /\ pc = "mounted"
  /\ View = "ready"
  /\ last' = Op("handleSwipe", IF SwipeGuard THEN "ignored" ELSE "accepted")
  /\ UNCHANGED <<historyVars, otherVars>>
  /\ UNCHANGED <<type, pc, fetches, acks, cleanBatch>>
  /\ lastPost' = IF SwipeGuard THEN lastPost
                 ELSE [pos |-> currentIndex, failed |-> FALSE]
  /\ IF SwipeGuard THEN UNCHANGED <<state, swipes>> ELSE BeginSwipe(liked)

\* The POST of swipe i is answered (any HTTP status): await fetch(...) resolves
\* and the 300 ms timer is scheduled.
PostReturns(i, st) ==
  /\ i \in 1..Len(swipes)
  /\ swipes[i].phase = "post"
  /\ swipes' = [swipes EXCEPT ![i].phase = "timer", ![i].status = st]
  /\ last' = Op("postReturns", st)
  /\ UNCHANGED <<historyVars, otherVars>>
  /\ UNCHANGED <<type, pc, state, fetches, acks, cleanBatch, lastPost>>

\* A faulty variant of SwipeCatch that surfaces the failure as the fetch path does.
SwipeCatchSurfaces ==
  /\ swiping' = None
  /\ error' = FailedToLoad
  /\ UNCHANGED <<recommendations, currentIndex, loading, noMore>>

\* A faulty variant of SwipeCatch that leaves the decision pending.
SwipeCatchKeepsSwiping ==
  UNCHANGED <<recommendations, currentIndex, loading, swiping, noMore, error>>

\* catch (err) { console.error(...); setSwiping(null); }
SwipeCatch ==
  /\ swiping' = None
  /\ UNCHANGED <<recommendations, currentIndex, loading, noMore, error>>

\* The POST of swipe i fails in transport: fetch() rejects.
PostRejects(i) ==
  /\ i \in 1..Len(swipes)
  /\ swipes[i].phase = "post"
  /\ swipes' = RemoveAt(swipes, i)
  /\ last' = Op("postRejects", "reject")
  /\ UNCHANGED <<historyVars, otherVars>>
  /\ SwipeCatch
  /\ lastPost' = IF swipes[i].stale THEN lastPost
                 ELSE [lastPost EXCEPT !.failed = TRUE]
  /\ UNCHANGED <<type, pc, fetches, acks, cleanBatch>>

\* A faulty variant of IsLastOfBatch that is off by one: the cursor runs to the
\* length of the batch.
IsLastOfBatchOffByOne(s) == s.idx + 1 > s.len

\* currentIndex + 1 >= recommendations.length, on the values the handler
\* closed over when it was called.
IsLastOfBatch(s) == s.idx + 1 >= s.len

\* A faulty variant of NextIndex that skips a candidate.
NextIndexSkips(prev) == prev + 2

\* setCurrentIndex(prev => prev + 1)
NextIndex(prev) == prev + 1

\* The timer callback (lines 81-87).
Advance(s) ==
  /\ swiping' = None
  /\ IF IsLastOfBatch(s)
     THEN noMore' = TRUE /\ UNCHANGED currentIndex
     ELSE currentIndex' = NextIndex(currentIndex) /\ UNCHANGED noMore
  /\ UNCHANGED <<recommendations, loading, error>>

\* The timer of swipe i fires.
TimerFires(i) ==
  /\ i \in 1..Len(swipes)
  /\ swipes[i].phase = "timer"
  /\ swipes' = RemoveAt(swipes, i)
  /\ acks' = acks + 1
  /\ last' = Op("ack", swipes[i].status)
  /\ UNCHANGED <<historyVars, otherVars>>
  /\ cleanBatch' = (cleanBatch /\ swipes[i].status = "ok")
  /\ Advance(swipes[i])
  /\ UNCHANGED <<type, pc, fetches, lastPost>>

(* --------------------------- specification ---------------------------- *)

Next ==
  \/ \E strict \in BOOLEAN : Mount(strict)
  \/ ViewerChange
  \/ LoadMore
  \/ TryAgain
  \/ \E i \in 1..MaxFetches, r \in FetchResponses : FetchResolves(i, r)
  \/ \E i \in 1..MaxFetches : FetchRejects(i)
  \/ \E liked \in BOOLEAN : HandleSwipe(liked)
  \/ \E i \in 1..MaxSwipes, st \in PostStatuses : PostReturns(i, st)
  \/ \E i \in 1..MaxSwipes : PostRejects(i)
  \/ \E i \in 1..MaxSwipes : TimerFires(i)

Spec == Init /\ [][Next]_vars

\* A recommendation fetch in flight is answered or rejected.
FetchCompletes ==
  \/ \E i \in 1..MaxFetches, r \in FetchResponses : FetchResolves(i, r)
  \/ \E i \in 1..MaxFetches : FetchRejects(i)

\* A swipe POST in flight is answered or rejected.
PostCompletes ==
  \/ \E i \in 1..MaxSwipes, st \in PostStatuses : PostReturns(i, st)
  \/ \E i \in 1..MaxSwipes : PostRejects(i)

\* A scheduled 300 ms timer fires.
TimerRuns == \E i \in 1..MaxSwipes : TimerFires(i)

\* The session under a network that answers or rejects every call and a
\* browser that runs every scheduled timer; the user's clicks stay optional.
FairSpec ==
  Spec /\ WF_vars(FetchCompletes) /\ WF_vars(PostCompletes) /\ WF_vars(TimerRuns)

TypeOK ==
  /\ type \in Types
  /\ recommendations \in Batches \cup {<<>>}
  /\ currentIndex \in Nat
  /\ loading \in BOOLEAN
  /\ swiping \in {None, "left", "right"}
  /\ noMore \in BOOLEAN
  /\ error \in {None, FailedToLoad}
  /\ pc \in {"init", "mounted"}
  /\ Len(fetches) <= MaxFetches
  /\ Len(swipes) <= MaxSwipes

(* ------------------------ a session on [A, B, C] ----------------------- *)

\* The batch of the concrete scenario: A (id 1), B (id 2), C (id 3).
ScenarioBatch == <<1, 2, 3>>

\* The component after its mount fetch has been answered with ScenarioBatch.
ScenarioInit ==
  /\ type \in Types
  /\ recommendations = ScenarioBatch
  /\ currentIndex = 0
  /\ loading = FALSE
  /\ swiping = None
  /\ noMore = FALSE
  /\ error = None
  /\ pc = "mounted"
  /\ fetches = <<>>
  /\ swipes = <<>>
  /\ acks = 0
  /\ cleanBatch = TRUE
  /\ last = Op("fetchDone", "list")
  /\ lastPost = NoPost
  /\ HistoryIdle
  /\ OthersIdle

\* The viewer decides on the cards of the batch; no fetch is issued.
ScenarioNext ==
  \/ \E liked \in BOOLEAN : HandleSwipe(liked)
  \/ \E i \in 1..MaxSwipes, st \in PostStatuses : PostReturns(i, st)
  \/ \E i \in 1..MaxSwipes : PostRejects(i)
  \/ \E i \in 1..MaxSwipes : TimerFires(i)

ScenarioSpec == ScenarioInit /\ [][ScenarioNext]_vars

(* ------------------------- InteractionHistory ------------------------- *)

\* The server's side of the interaction ledger: listInteractions returns the
\* targets the viewer likes and the targets the viewer dislikes.
ServerLiked == {t \in Candidates : interactions[t] = Like}
ServerDisliked == {t \in Candidates : interactions[t] = Dislike}

\* The server's side of setStatus: an upsert (or delete) keyed by the target.
SetStatus(t, s) == [interactions EXCEPT ![t] = s]

\* The bodies a GET /api/interactions/... can be answered with: JSON with the
\* two lists, JSON without them (an error object), or no JSON at all.
ReadBodies == {"lists", "absent", "text"}

\* const currentList = activeList === "liked" ? liked : disliked
currentList == IF activeList = "liked" THEN historyLiked ELSE historyDisliked

\* The statuses the buttons of a row offer: a liked row can be flipped to
\* dislike or removed, a disliked row flipped to like or removed.
RowActions == IF activeList = "liked" THEN {Dislike, Removed} ELSE {Like, Removed}

\* A fetchHistory request as it leaves.  target and newStatus are those of
\* the updateInteraction call that awaits it (NoTarget: the effect called
\* it); putOk: that call's PUT was answered 2xx; clean: it was, and no write
\* has reached the server since.
HistoryRead(t, st, c) ==
  [phase |-> "sent", body |-> "", liked |-> {}, disliked |-> {},
   target |-> t, newStatus |-> st, putOk |-> c, clean |-> c]

\* fetchHistory up to its await: setLoading(true) and the GET leaves, behind
\* the requests q already in flight.
fetchHistory(q, t, st, c) ==
  /\ Len(q) < MaxReads
  /\ historyLoading' = TRUE
  /\ reads' = Append(q, HistoryRead(t, st, c))

\* The effect: if (userId) fetchHistory(), once, or twice under StrictMode.
HistoryMount(strict) ==
  /\ pc = "init"
  /\ pc' = "mounted"
  /\ historyLoading' = TRUE
  /\ reads' = [i \in 1..(IF strict THEN 2 ELSE 1) |->
                 HistoryRead(NoTarget, Removed, FALSE)]
  /\ UNCHANGED <<type, last, swipeVars, otherVars, historyLiked, historyDisliked, activeList,
                 updating, interactions, puts, faultless>>

\* The Liked / Passed toggle (rendered when the view is not loading).
SetActiveList(l) ==
  /\ pc = "mounted"
  /\ ~historyLoading
  /\ activeList # l
  /\ activeList' = l
  /\ UNCHANGED <<type, pc, last, swipeVars, otherVars, historyLiked, historyDisliked,
                 historyLoading, updating, interactions, reads, puts, faultless>>

\* The server answers read i: the body is fixed now, the lists being the
\* server's interactions at this moment; the response is on its way.
ServerAnswersRead(i, body) ==
  /\ i \in 1..Len(reads)
  /\ reads[i].phase = "sent"
  /\ reads' = [reads EXCEPT ![i].phase = "answered",
                             ![i].body = body,
                             ![i].liked = IF body = "lists" THEN ServerLiked ELSE {},
                             ![i].disliked = IF body = "lists" THEN ServerDisliked ELSE {}]
  /\ faultless' = (faultless /\ body = "lists")
  /\ UNCHANGED <<type, pc, last, swipeVars, otherVars, historyLiked, historyDisliked,
                 historyLoading, activeList, updating, interactions, puts>>

\* A faulty variant of ApplyHistory that replaces only the liked list.
ApplyHistoryLikedOnly(r) ==
  /\ historyLiked' = r.liked
  /\ UNCHANGED historyDisliked

\* A faulty variant of ApplyHistory that stores the lists crosswise.
ApplyHistorySwapped(r) ==
  /\ historyLiked' = r.disliked
  /\ historyDisliked' = r.liked

\* setLiked(data.liked || []); setDisliked(data.disliked || [])
ApplyHistory(r) ==
  /\ historyLiked' = r.liked
  /\ historyDisliked' = r.disliked

\* The end of fetchHistory, finally { setLoading(false) }, and, when an
\* updateInteraction call awaited it, that call's finally { setUpdating(null) }.
FinishRead(r) ==
  /\ historyLoading' = FALSE
  /\ updating' = IF r.target # NoTarget THEN NoTarget ELSE updating

\* The response of read i arrives: await fetch() and response.json().
ReadArrives(i) ==
  /\ i \in 1..Len(reads)
  /\ reads[i].phase = "answered"
  /\ reads' = RemoveAt(reads, i)
  /\ IF reads[i].body = "text"
     THEN UNCHANGED <<historyLiked, historyDisliked>>
     ELSE ApplyHistory(reads[i])
  /\ FinishRead(reads[i])
  /\ last' = Op(IF reads[i].target # NoTarget THEN "updateDone" ELSE "readDone",
                IF reads[i].clean /\ reads[i].body = "lists" THEN "roundTrip"
                ELSE reads[i].body)
  /\ UNCHANGED <<type, pc, swipeVars, otherVars, activeList, interactions, puts, faultless>>

\* Read i fails in transport before any answer: fetch() rejects and the
\* catch block logs it.
ReadRejects(i) ==
  /\ i \in 1..Len(reads)
  /\ reads[i].phase = "sent"
  /\ reads' = RemoveAt(reads, i)
  /\ FinishRead(reads[i])
  /\ last' = Op(IF reads[i].target # NoTarget THEN "updateDone" ELSE "readDone",
                "reject")
  /\ faultless' = FALSE
  /\ UNCHANGED <<type, pc, swipeVars, otherVars, historyLiked, historyDisliked,
                 activeList, interactions, puts>>

\* A faulty variant of BeginUpdate that patches the displayed lists with the
\* click instead of waiting for the server's lists.
BeginUpdateOptimistic(targetId, newStatus) ==
  /\ updating' = targetId
  /\ puts' = Append(puts, [target |-> targetId, newStatus |-> newStatus])
  /\ historyLiked' = IF newStatus = Like THEN historyLiked \cup {targetId}
                     ELSE historyLiked \ {targetId}
  /\ historyDisliked' = IF newStatus = Dislike THEN historyDisliked \cup {targetId}
                        ELSE historyDisliked \ {targetId}

\* updateInteraction up to its await (lines 66-76): setUpdating(targetId)
\* and the PUT leaves.
BeginUpdate(targetId, newStatus) ==
  /\ updating' = targetId
  /\ puts' = Append(puts, [target |-> targetId, newStatus |-> newStatus])
  /\ UNCHANGED <<historyLiked, historyDisliked>>

\* A call of updateInteraction(targetId, newStatus) from an enabled button of
\* a displayed row (the rows are rendered when the view is not loading).
updateInteraction(targetId, newStatus) ==
  /\ pc = "mounted"
  /\ ~historyLoading
  /\ targetId \in currentList
  /\ newStatus \in RowActions
  /\ updating # targetId
  /\ Len(puts) < MaxPuts
  /\ BeginUpdate(targetId, newStatus)
  /\ UNCHANGED <<type, pc, last, swipeVars, otherVars, historyLoading, activeList,
                 interactions, reads, faultless>>

\* A write reached the server: a read the server has not answered yet no
\* longer follows its own successful PUT directly (clean: the read was issued
\* by an update whose PUT was answered 2xx, with no write since).
MarkDisturbed(q) == [i \in 1..Len(q) |->
  IF q[i].phase = "sent" THEN [q[i] EXCEPT !.clean = FALSE] ELSE q[i]]

\* A faulty variant of AfterPut that reports the update finished at once and
\* does not wait for the lists to be read again.
AfterPutNoRefresh(p, st) ==
  /\ updating' = NoTarget
  /\ reads' = MarkDisturbed(reads)
  /\ UNCHANGED historyLoading

\* After await fetch(PUT): await fetchHistory(), whatever the status.
AfterPut(p, st) ==
  /\ fetchHistory(IF st = "ok" THEN MarkDisturbed(reads) ELSE reads,
                  p.target, p.newStatus, st = "ok")
  /\ UNCHANGED updating

\* PUT i is answered with a status: a 2xx has set the status on the server.
PutReturns(i, st) ==
  /\ i \in 1..Len(puts)
  /\ puts' = RemoveAt(puts, i)
  /\ interactions' = IF st = "ok"
                     THEN SetStatus(puts[i].target, puts[i].newStatus)
                     ELSE interactions
  /\ AfterPut(puts[i], st)
  /\ last' = Op("putReturns",
                IF st = "ok" /\ interactions[puts[i].target] = puts[i].newStatus
                THEN "same" ELSE st)
  /\ faultless' = (faultless /\ st = "ok")
  /\ UNCHANGED <<type, pc, swipeVars, otherVars, historyLiked, historyDisliked, activeList>>

\* PUT i fails in transport (the write may or may not have reached the
\* server): catch logs it, finally { setUpdating(null) }, no refresh.
PutRejects(i, applied) ==
  /\ i \in 1..Len(puts)
  /\ puts' = RemoveAt(puts, i)
  /\ interactions' = IF applied
                     THEN SetStatus(puts[i].target, puts[i].newStatus)
                     ELSE interactions
  /\ reads' = IF applied THEN MarkDisturbed(reads) ELSE reads
  /\ updating' = NoTarget
  /\ last' = Op("putRejects", IF applied THEN "applied" ELSE "lost")
  /\ faultless' = FALSE
  /\ UNCHANGED <<type, pc, swipeVars, otherVars, historyLiked, historyDisliked,
                 historyLoading, activeList>>

\* InteractionHistory as constructed for a viewer with any interactions.
HistoryInit ==
  /\ type \in Types
  /\ pc = "init"
  /\ last = Op("init", "")
  /\ recommendations = <<>>
  /\ currentIndex = 0
  /\ loading = FALSE
  /\ swiping = None
  /\ noMore = FALSE
  /\ error = None
  /\ fetches = <<>>
  /\ swipes = <<>>
  /\ acks = 0
  /\ cleanBatch = TRUE
  /\ lastPost = NoPost
  /\ historyLiked = {}
  /\ historyDisliked = {}
  /\ historyLoading = TRUE
  /\ activeList = "liked"
  /\ updating = NoTarget
  /\ interactions \in [Candidates -> Statuses]
  /\ reads = <<>>
  /\ puts = <<>>
  /\ faultless = TRUE
  /\ OthersIdle

HistoryNext ==
  \/ \E strict \in BOOLEAN : HistoryMount(strict)
  \/ \E l \in {"liked", "disliked"} : SetActiveList(l)
  \/ \E i \in 1..MaxReads, body \in ReadBodies : ServerAnswersRead(i, body)
  \/ \E i \in 1..MaxReads : ReadArrives(i)
  \/ \E i \in 1..MaxReads : ReadRejects(i)
  \/ \E t \in Candidates, s \in Statuses : updateInteraction(t, s)
  \/ \E i \in 1..MaxPuts, st \in PostStatuses : PutReturns(i, st)
  \/ \E i \in 1..MaxPuts, applied \in BOOLEAN : PutRejects(i, applied)

HistorySpec == HistoryInit /\ [][HistoryNext]_vars

HistoryTypeOK ==
  /\ historyLiked \subseteq Candidates
  /\ historyDisliked \subseteq Candidates
  /\ historyLoading \in BOOLEAN
  /\ activeList \in {"liked", "disliked"}
  /\ updating \in Candidates \cup {NoTarget}
  /\ interactions \in [Candidates -> Statuses]
  /\ Len(reads) <= MaxReads
  /\ Len(puts) <= MaxPuts
  /\ faultless \in BOOLEAN

(* ------------------------------ SearchBar ------------------------------ *)

\* The texts typed into the input: nothing, a blank, and two words of which
\* the second extends the first.
Queries == {"", " ", "a", "ab"}

\* query.trim()
Trim(q) == IF q = " " THEN "" ELSE q

\* The server's side of the search: the entities matching q, best first.
Matches(q) ==
  IF q = "a" THEN [i \in 1..MaxBatch |-> i]
  ELSE IF q = "ab" THEN [i \in 1..(MaxBatch - 1) |-> i]
  ELSE <<>>

\* The bodies a GET /api/search/... can be answered with: JSON with results,
\* JSON without them (an error object), or no JSON at all.
SearchBodies == {"results", "absent", "text"}

\* showResults && (query || loading): the dropdown is rendered.
Dropdown == showResults /\ (query # "" \/ searchLoading)

\* The effect on [query]: the cleanup of the previous run clears its timer,
\* then setTimeout(..., 300) with the callback closing over q.
Debounce(q) == timer' = q

\* The effects of the first render: the debounce effect runs on the initial
\* query (under StrictMode it runs, is cleaned up and runs again).
SearchMount(strict) ==
  /\ pc = "init"
  /\ pc' = "mounted"
  /\ Debounce(query)
  /\ UNCHANGED <<type, last, outsideSearch, query, results, searchLoading,
                 showResults, searches>>

\* onChange: setQuery(e.target.value) with another text.
SetQuery(q) ==
  /\ pc = "mounted"
  /\ q # query
  /\ query' = q
  /\ Debounce(q)
  /\ UNCHANGED <<type, pc, last, outsideSearch, results, searchLoading,
                 showResults, searches>>

\* onFocus: query && setShowResults(true)
Focus ==
  /\ pc = "mounted"
  /\ showResults' = (IF query # "" THEN TRUE ELSE showResults)
  /\ UNCHANGED <<type, pc, last, outsideSearch, query, results, searchLoading,
                 timer, searches>>

\* handleClickOutside: setShowResults(false)
ClickOutside ==
  /\ pc = "mounted"
  /\ showResults' = FALSE
  /\ UNCHANGED <<type, pc, last, outsideSearch, query, results, searchLoading,
                 timer, searches>>

\* The clear button, rendered when query is not empty:
\* setQuery(""); setResults([]).
Clear ==
  /\ pc = "mounted"
  /\ query # ""
  /\ query' = ""
  /\ results' = <<>>
  /\ Debounce("")
  /\ UNCHANGED <<type, pc, last, outsideSearch, searchLoading, showResults,
                 searches>>

\* performSearch up to its await: setLoading(true) and the GET leaves.
performSearch(searchQuery) ==
  /\ Len(searches) < MaxSearches
  /\ searchLoading' = TRUE
  /\ searches' = Append(searches, [q |-> searchQuery])
  /\ UNCHANGED results

\* The debounce timer fires: if (query.trim()) performSearch(query)
\* else setResults([]), on the query the callback closed over.
DebounceFires ==
  /\ pc = "mounted"
  /\ timer # NoTimer
  /\ timer' = NoTimer
  /\ IF Trim(timer) # ""
     THEN performSearch(timer)
     ELSE results' = <<>> /\ UNCHANGED <<searchLoading, searches>>
  /\ UNCHANGED <<type, pc, last, outsideSearch, query, showResults>>

\* setResults(data.results || []); setShowResults(true)
ApplyResults(q, body) ==
  /\ results' = IF body = "results" THEN Matches(q) ELSE <<>>
  /\ showResults' = TRUE

\* catch (err) { setResults([]) }
SearchCatch ==
  /\ results' = <<>>
  /\ UNCHANGED showResults

\* Search i is answered (any HTTP status): the continuation after
\* await fetch(endpoint), response.json() rejecting on a body that is no JSON.
SearchResolves(i, body) ==
  /\ pc = "mounted"
  /\ i \in 1..Len(searches)
  /\ searches' = RemoveAt(searches, i)
  /\ IF body = "text" THEN SearchCatch ELSE ApplyResults(searches[i].q, body)
  /\ searchLoading' = FALSE
  /\ last' = Op("searchDone", body)
  /\ UNCHANGED <<type, pc, outsideSearch, query, timer>>

\* Search i fails in transport: fetch() rejects.
SearchRejects(i) ==
  /\ pc = "mounted"
  /\ i \in 1..Len(searches)
  /\ searches' = RemoveAt(searches, i)
  /\ SearchCatch
  /\ searchLoading' = FALSE
  /\ last' = Op("searchDone", "reject")
  /\ UNCHANGED <<type, pc, outsideSearch, query, timer>>

\* handleSelect(item) on a row of the dropdown: setShowResults(false);
\* setQuery(""); navigate(...) leaves the dashboard, which unmounts the
\* component: the cleanup clears the timer, and React drops the state
\* updates of the responses still to come.
handleSelect(item) ==
  /\ pc = "mounted"
  /\ Dropdown
  /\ ~searchLoading
  /\ item \in {results[i] : i \in 1..Len(results)}
  /\ pc' = "left"
  /\ showResults' = FALSE
  /\ query' = ""
  /\ timer' = NoTimer
  /\ UNCHANGED <<type, last, outsideSearch, results, searchLoading, searches>>

\* SearchBar as constructed on a dashboard.
SearchInit ==
  /\ type \in Types
  /\ pc = "init"
  /\ last = Op("init", "")
  /\ SwipeIdle
  /\ HistoryIdle
  /\ OthersIdle

SearchNext ==
  \/ \E strict \in BOOLEAN : SearchMount(strict)
  \/ \E q \in Queries : SetQuery(q)
  \/ Focus
  \/ ClickOutside
  \/ Clear
  \/ DebounceFires
  \/ \E i \in 1..MaxSearches, body \in SearchBodies : SearchResolves(i, body)
  \/ \E i \in 1..MaxSearches : SearchRejects(i)
  \/ \E item \in Candidates : handleSelect(item)

SearchSpec == SearchInit /\ [][SearchNext]_vars

SearchTypeOK ==
  /\ query \in Queries
  /\ results \in {Matches(q) : q \in Queries}
  /\ searchLoading \in BOOLEAN
  /\ showResults \in BOOLEAN
  /\ timer \in Queries \cup {NoTimer}
  /\ Len(searches) <= MaxSearches

(* ---------------------------- profile pages --------------------------- *)

\* The answers a GET /api/investor/{id} (or /api/company/{id}) can get.
LookupResponses == {[status |-> st, body |-> b] : st \in PostStatuses, b \in {"json", "text"}}

\* new Error("Investor not found") / new Error("Company not found")
NotFound == IF page = "investor" THEN "Investor not found" ELSE "Company not found"

\* The render: if (loading) spinner; if (error) error view with Go back;
\* else the profile.
ProfileView ==
  IF profileLoading THEN "loading"
  ELSE IF profileError # None THEN "error" ELSE "profile"

\* viewerId && viewerType === "company" (CompanyProfile: "investor")
ViewerAccepted ==
  viewerId # Undefined /\ viewerType = (IF page = "investor" THEN "company" ELSE "investor")

\* The Like and Pass buttons are rendered (enabled or not).
ButtonsRendered == ProfileView = "profile" /\ ViewerAccepted /\ interactionDone = None

\* The effect on [id]: fetchProfile(), once, or twice under StrictMode.
ProfileMount(strict) ==
  /\ pc = "init"
  /\ pc' = "mounted"
  /\ lookups' = [i \in 1..(IF strict THEN 2 ELSE 1) |-> [id |-> "id"]]
  /\ UNCHANGED <<type, last, outsideProfile, page, viewerId, viewerType, profile,
                 profileLoading, profileError, interacting, interactionDone, posts>>

\* A faulty variant of LookupFailed that never looks at the status.
LookupFailedUnchecked(r) == FALSE

\* if (!response.ok) throw new Error("... not found")
LookupFailed(r) == r.status # "ok"

\* catch (err) { setError(err.message) }
LookupCatch(message) ==
  /\ profileError' = message
  /\ UNCHANGED profile

\* Lookup i is answered with r: the continuation after await fetch(...).
LookupResolves(i, r) ==
  /\ pc = "mounted"
  /\ i \in 1..Len(lookups)
  /\ lookups' = RemoveAt(lookups, i)
  /\ IF LookupFailed(r) THEN LookupCatch(NotFound)
     ELSE IF r.body = "text" THEN LookupCatch("Unexpected token")
     ELSE profile' = "data" /\ UNCHANGED profileError
  /\ profileLoading' = FALSE
  /\ last' = Op("lookupDone", IF r.status # "ok" THEN "status" ELSE r.body)
  /\ UNCHANGED <<type, pc, outsideProfile, page, viewerId, viewerType,
                 interacting, interactionDone, posts>>

\* Lookup i fails in transport: fetch() rejects.
LookupRejects(i) ==
  /\ pc = "mounted"
  /\ i \in 1..Len(lookups)
  /\ lookups' = RemoveAt(lookups, i)
  /\ LookupCatch("Failed to fetch")
  /\ profileLoading' = FALSE
  /\ last' = Op("lookupDone", "reject")
  /\ UNCHANGED <<type, pc, outsideProfile, page, viewerId, viewerType,
                 interacting, interactionDone, posts>>

\* navigate(-1): "Go back" of the error view, "Back" of the profile's navbar.
\* The page unmounts; React drops the state updates of late responses.
GoBack ==
  /\ pc = "mounted"
  /\ ProfileView \in {"error", "profile"}
  /\ pc' = "left"
  /\ UNCHANGED <<type, last, outsideProfile, profileVars>>

\* A faulty variant of InteractionGuard that forgets the request in flight.
InteractionGuardNoPending == ~ViewerAccepted

\* if (!viewerId || viewerType !== "company" || interacting) return;
InteractionGuard == ~ViewerAccepted \/ interacting

\* handleInteraction past its guard: setInteracting(true) and the POST leaves.
BeginInteraction(liked) ==
  /\ Len(posts) < MaxPosts
  /\ interacting' = TRUE
  /\ posts' = Append(posts, [liked |-> liked])

\* A call of handleInteraction(liked) from a rendered Like or Pass button;
\* the call is modelled whether or not the button is disabled, so that the
\* guard of the handler is what decides.
handleInteraction(liked) ==
  /\ pc = "mounted"
  /\ ButtonsRendered
  /\ IF InteractionGuard THEN UNCHANGED <<interacting, posts>>
     ELSE BeginInteraction(liked)
  /\ last' = Op("handleInteraction", IF InteractionGuard THEN "ignored" ELSE "accepted")
  /\ UNCHANGED <<type, pc, outsideProfile, page, viewerId, viewerType, profile,
                 profileLoading, profileError, interactionDone, lookups>>

\* if (response.ok) setInteractionDone(liked ? "liked" : "disliked")
AfterInteraction(p, st) ==
  interactionDone' = (IF st = "ok" THEN (IF p.liked THEN "liked" ELSE "disliked")
                      ELSE interactionDone)

\* POST i is answered with a status; finally { setInteracting(false) }.
InteractionReturns(i, st) ==
  /\ pc = "mounted"
  /\ i \in 1..Len(posts)
  /\ posts' = RemoveAt(posts, i)
  /\ AfterInteraction(posts[i], st)
  /\ interacting' = FALSE
  /\ last' = Op("interactionDone", st)
  /\ UNCHANGED <<type, pc, outsideProfile, page, viewerId, viewerType, profile,
                 profileLoading, profileError, lookups>>

\* POST i fails in transport: catch logs it; finally { setInteracting(false) }.
InteractionRejects(i) ==
  /\ pc = "mounted"
  /\ i \in 1..Len(posts)
  /\ posts' = RemoveAt(posts, i)
  /\ interacting' = FALSE
  /\ last' = Op("interactionDone", "reject")
  /\ UNCHANGED <<type, pc, outsideProfile, page, viewerId, viewerType, profile,
                 profileLoading, profileError, interactionDone, lookups>>

\* A profile page as constructed: either page, opened by a viewer of either
\* type from the history or the search (?viewer=..&viewerType=..) or
\* without parameters.
ProfileInit ==
  /\ type \in Types
  /\ pc = "init"
  /\ last = Op("init", "")
  /\ SwipeIdle
  /\ HistoryIdle
  /\ request = NoRequest
  /\ SearchIdle
  /\ page \in Types
  /\ viewerId \in Viewers \cup {Undefined}
  /\ viewerType \in {type, None}
  /\ profile = None
  /\ profileLoading = TRUE
  /\ profileError = None
  /\ interacting = FALSE
  /\ interactionDone = None
  /\ lookups = <<>>
  /\ posts = <<>>

ProfileNext ==
  \/ \E strict \in BOOLEAN : ProfileMount(strict)
  \/ \E i \in 1..MaxLookups, r \in LookupResponses : LookupResolves(i, r)
  \/ \E i \in 1..MaxLookups : LookupRejects(i)
  \/ GoBack
  \/ \E liked \in BOOLEAN : handleInteraction(liked)
  \/ \E i \in 1..MaxPosts, st \in PostStatuses : InteractionReturns(i, st)
  \/ \E i \in 1..MaxPosts : InteractionRejects(i)

ProfileSpec == ProfileInit /\ [][ProfileNext]_vars

ProfileTypeOK ==
  /\ page \in Types
  /\ viewerId \in Viewers \cup {Undefined}
  /\ viewerType \in Types \cup {None}
  /\ profile \in {None, "data"}
  /\ profileLoading \in BOOLEAN
  /\ profileError \in {None, NotFound, "Unexpected token", "Failed to fetch"}
  /\ interacting \in BOOLEAN
  /\ interactionDone \in {None, "liked", "disliked"}
  /\ Len(lookups) <= MaxLookups
  /\ Len(posts) <= MaxPosts

(* ------------------------- requests of a viewer ------------------------ *)

\* An entity as the server returns it: a company carries company_id, an
\* investor user_id.
Item(role, c) ==
  IF role = "company" THEN [company_id |-> c, user_id |-> Undefined]
  ELSE [company_id |-> Undefined, user_id |-> c]

\* The role segment of the viewer in a path: isInvestor ? "investor" : "company".
ViewerPath(t) == IF t = "investor" THEN "investor" ELSE "company"

\* The role segment of the target in a path: isInvestor ? "company" : "investor".
TargetPath(t) == IF t = "investor" THEN "company" ELSE "investor"

\* A faulty variant of TargetId that reads company_id for either viewer.
TargetIdAlwaysCompany(t, item) == item.company_id

\* const targetId = isInvestor ? current.company_id : current.user_id
TargetId(t, item) == IF t = "investor" THEN item.company_id ELSE item.user_id

\* JSON.stringify({ like: liked })
LikeBody(liked) == IF liked THEN "like=true" ELSE "like=false"

\* JSON.stringify({ new_status: newStatus })
StatusBody(s) ==
  IF s = Like THEN "new_status=1"
  ELSE IF s = Dislike THEN "new_status=0" ELSE "new_status=-1"

\* GET /api/recommendations/{investor|company}/{userId}
RecommendationsRequest(t, u) ==
  [api |-> "recommendations", method |-> "GET", viewer |-> ViewerPath(t),
   viewerId |-> u, target |-> "", targetId |-> Undefined, body |-> "",
   from |-> "SwipeRecommendations"]

\* POST /api/swipe/{viewer role}/{userId}/{target role}/{targetId}
SwipeRequest(t, u, item, liked) ==
  [api |-> "swipe", method |-> "POST", viewer |-> ViewerPath(t),
   viewerId |-> u, target |-> TargetPath(t), targetId |-> TargetId(t, item),
   body |-> LikeBody(liked), from |-> "SwipeRecommendations"]

\* GET /api/interactions/{investor|company}/{userId}
InteractionsRequest(t, u) ==
  [api |-> "interactions", method |-> "GET", viewer |-> ViewerPath(t),
   viewerId |-> u, target |-> "", targetId |-> Undefined, body |-> "",
   from |-> "InteractionHistory"]

\* PUT /api/interactions/{viewer role}/{userId}/{target role}/{targetId},
\* the id being the one the row was rendered with.
UpdateRequest(t, u, item, s) ==
  [api |-> "interactions", method |-> "PUT", viewer |-> ViewerPath(t),
   viewerId |-> u, target |-> TargetPath(t), targetId |-> TargetId(t, item),
   body |-> StatusBody(s), from |-> "InteractionHistory"]

\* The profile page a row of the viewer's history (or a search result of the
\* viewer's dashboard) opens: the page of the counterpart role.
ProfilePage(t) == IF t = "investor" THEN "company" ELSE "investor"

\* The viewerType a profile page accepts: InvestorProfile "company",
\* CompanyProfile "investor".
PageViewer(pg) == IF pg = "investor" THEN "company" ELSE "investor"

\* POST of handleInteraction on a profile page: InvestorProfile posts to
\* /api/swipe/company/{viewerId}/investor/{id}, CompanyProfile to
\* /api/swipe/investor/{viewerId}/company/{id}.
ProfileSwipeRequest(pg, viewer, id, liked) ==
  IF pg = "investor"
  THEN [api |-> "swipe", method |-> "POST", viewer |-> "company",
        viewerId |-> viewer, target |-> "investor", targetId |-> id,
        body |-> LikeBody(liked), from |-> "InvestorProfile"]
  ELSE [api |-> "swipe", method |-> "POST", viewer |-> "investor",
        viewerId |-> viewer, target |-> "company", targetId |-> id,
        body |-> LikeBody(liked), from |-> "CompanyProfile"]

\* The viewer's SwipeRecommendations fetches a batch.
RequestRecommendations(u) ==
  /\ request' = RecommendationsRequest(type, u)
  /\ UNCHANGED <<type, pc, last, outsidePairing>>

\* The viewer decides on a candidate of the batch: an entity of the other role.
RequestSwipe(u, c, liked) ==
  /\ request' = SwipeRequest(type, u, Item(TargetPath(type), c), liked)
  /\ UNCHANGED <<type, pc, last, outsidePairing>>

\* The viewer's InteractionHistory reads the lists.
RequestInteractions(u) ==
  /\ request' = InteractionsRequest(type, u)
  /\ UNCHANGED <<type, pc, last, outsidePairing>>

\* The viewer changes the status of a row of the history.
RequestUpdate(u, c, s) ==
  /\ request' = UpdateRequest(type, u, Item(TargetPath(type), c), s)
  /\ UNCHANGED <<type, pc, last, outsidePairing>>

\* The viewer likes or passes on the profile page opened with
\* ?viewer={userId}&viewerType={type}; the page's guard lets the call through.
RequestProfileSwipe(u, c, liked) ==
  /\ type = PageViewer(ProfilePage(type))
  /\ request' = ProfileSwipeRequest(ProfilePage(type), u, c, liked)
  /\ UNCHANGED <<type, pc, last, outsidePairing>>

\* A viewer of either type with no component mounted yet.
PairingInit ==
  /\ type \in Types
  /\ pc = "init"
  /\ last = Op("init", "")
  /\ SwipeIdle
  /\ HistoryIdle
  /\ OthersIdle

PairingNext ==
  \/ \E u \in Viewers : RequestRecommendations(u)
  \/ \E u \in Viewers, c \in Candidates, liked \in BOOLEAN : RequestSwipe(u, c, liked)
  \/ \E u \in Viewers : RequestInteractions(u)
  \/ \E u \in Viewers, c \in Candidates, s \in Statuses : RequestUpdate(u, c, s)
  \/ \E u \in Viewers, c \in Candidates, liked \in BOOLEAN :
       RequestProfileSwipe(u, c, liked)

PairingSpec == PairingInit /\ [][PairingNext]_vars

(* ------------------------------ claims -------------------------------- *)

\* The step is the timer callback of swipe i.
IsAckOf(i) ==
  /\ i \in 1..Len(swipes)
  /\ swipes[i].phase = "timer"
  /\ swipes' = RemoveAt(swipes, i)
  /\ last'.op = "ack"

\* C1: while a swipe decision is pending (swiping non-null, from the accepted
\* call until the catch block or the timer callback has run) there is exactly
\* one swipe in flight, and any further call of handleSwipe changes nothing:
\* no second POST, no state change, so a burst advances the cursor at most once.
C1_PendingSwipeBlocksHandleSwipe ==
  /\ [](Len(swipes) <= 1 /\ (swiping # None <=> Len(swipes) = 1))
  /\ [][(last'.op = "handleSwipe" /\ swiping # None)
          => /\ last'.kind = "ignored"
             /\ UNCHANGED <<state, swipes, fetches, acks>>]_vars

\* C1 witness: handleSwipe was called while a decision was pending.
C1_Witness ==
  /\ last = Op("handleSwipe", "ignored")
  /\ swiping # None
  /\ Len(swipes) = 1

C3_Non2xxSwipeIsFailure ==
  [][(last'.op = "ack" /\ last'.kind = "error")
       => /\ currentIndex' = currentIndex
          /\ noMore' = noMore
          /\ current' = current]_vars

\* C4: a swipe POST that rejects degrades silently.  swiping returns to null;
\* currentIndex, the batch, noMore and error are unchanged (a null error stays
\* null), so the view and the displayed candidate are the same, and the guard
\* of handleSwipe lets the same candidate be decided again.
C4_RejectedSwipeDegradesSilently ==
  [][last'.op = "postRejects"
       => /\ swiping' = None
          /\ UNCHANGED <<currentIndex, recommendations, noMore, error, loading>>
          /\ View' = View
          /\ current' = current
          /\ ~SwipeGuard']_vars

\* C4 witness: a POST was rejected and the card view is back, not swiping.
C4_Witness ==
  /\ last = Op("postRejects", "reject")
  /\ swiping = None
  /\ View = "ready"
  /\ error = None

C6_CursorInRangeAndMonotonic ==
  /\ [](0 <= currentIndex /\ currentIndex <= Len(recommendations))
  /\ [][currentIndex' # currentIndex
          => \/ /\ currentIndex' = currentIndex + 1
                /\ recommendations' = recommendations
             \/ /\ currentIndex' = 0
                /\ last' = Op("fetchDone", "list")
                /\ Len(recommendations') > 0
                /\ acks' = 0]_vars

\* C6 witness: a new batch has reset a cursor that had advanced (the swipe
\* still in flight was made at position 1 of the replaced batch).
C6_Witness ==
  /\ last = Op("fetchDone", "list")
  /\ currentIndex = 0
  /\ \E i \in 1..Len(swipes) : swipes[i].stale /\ swipes[i].idx >= 1

\* The candidate after c in the displayed batch.
NextInBatch(c) ==
  IF \E k \in 1..(Len(recommendations) - 1) : recommendations[k] = c
  THEN recommendations[(CHOOSE k \in 1..(Len(recommendations) - 1) :
                          recommendations[k] = c) + 1]
  ELSE Undefined

\* C7: when the timer of a decision acknowledged with 2xx fires while the
\* card is displayed (the session is Deciding), a decision on the last
\* candidate of its batch leaves the session Exhausted with noMore set; a
\* decision on an earlier candidate leaves it Ready, showing the candidate
\* that follows the decided one in batch order.
C7_AckLeadsToReadyOrExhausted ==
  [][\A i \in 1..Len(swipes) :
       (IsAckOf(i) /\ swipes[i].status = "ok" /\ View = "ready")
         => IF swipes[i].idx + 1 = swipes[i].len
            THEN noMore' /\ View' = "exhausted"
            ELSE /\ View' = "ready"
                 /\ swiping' = None
                 /\ current' # Undefined
                 /\ current' = NextInBatch(swipes[i].target)]_vars

\* C8: a fetch answered 2xx with an empty or absent recommendations list sets
\* noMore, does not touch error, batch or cursor, and leaves the view
\* Exhausted, never the error view.
C8_EmptyFetchExhausts ==
  [][last' = Op("fetchDone", "empty")
       => /\ noMore'
          /\ UNCHANGED <<error, recommendations, currentIndex>>
          /\ ~loading'
          /\ View' = "exhausted"]_vars

\* C8 witness: an empty answer has arrived; the session is Exhausted, no error.
C8_Witness ==
  /\ last = Op("fetchDone", "empty")
  /\ noMore
  /\ error = None
  /\ View = "exhausted"

\* C9: a fetch answered with a non-success HTTP status sets error and does
\* not set noMore.
C9_HttpErrorFetchIsError ==
  [][(last'.op = "fetchDone" /\ last'.kind \in {"http_json", "http_text"})
       => error' = FailedToLoad /\ (noMore' => noMore)]_vars

\* C10: whenever the fetch that completed last has failed (the catch block
\* ran) and no other fetch is in flight, the view is the error view.
C10_FailedFetchShowsErrorView ==
  (/\ last.op = "fetchDone"
   /\ last.kind \in {"reject", "http_text"}
   /\ fetches = <<>>)
    => View = "error"

\* C11: swipe writes of a session go out one at a time and in batch order.
\* No POST is sent while another is in flight; the position of each POST on
\* the installed batch is the one after the previous POST's position, or the
\* same position when that previous write failed; the first POST on a batch
\* is for position 0; and the batch is written only by the arrival of a
\* non-empty fetch response, never re-ordered in place.
C11_WritesInBatchOrder ==
  /\ [][last' = Op("handleSwipe", "accepted")
          => /\ swipes = <<>>
             /\ swipes'[1].idx = currentIndex
             /\ \/ currentIndex = lastPost.pos + 1
                \/ currentIndex = lastPost.pos /\ lastPost.failed]_vars
  /\ [][recommendations' # recommendations
          => last' = Op("fetchDone", "list")]_vars

\* C12: a swipe write started on one batch never changes the cursor or the
\* exhaustion flag of a later session state: the timer callback of a swipe
\* whose batch has been replaced leaves currentIndex and noMore alone.
C12_StaleAckLeavesNewBatchAlone ==
  [][\A i \in 1..Len(swipes) :
       (IsAckOf(i) /\ swipes[i].stale) => UNCHANGED <<currentIndex, noMore>>]_vars

\* C13: the arrival of a fetch response with a non-empty list, from whatever
\* state, leaves the session Ready on the first candidate of the new batch:
\* cursor 0, noMore false, error null, the card view displayed.
C13_ListFetchYieldsReady ==
  [][last' = Op("fetchDone", "list")
       => /\ Len(recommendations') > 0
          /\ currentIndex' = 0
          /\ current' = recommendations'[1]
          /\ ~noMore'
          /\ error' = None
          /\ View' = "ready"]_vars

\* C14: while a recommendations fetch is in flight the view is the loading
\* view, and Load More cannot be triggered.
C14_LoadingWhileFetchInFlight ==
  /\ [](fetches # <<>> => View = "loading")
  /\ [][fetches # <<>> => last'.op # "loadMore"]_vars

\* C15: in the Exhausted view no swipe can be started and no retry is
\* offered; Load More issues exactly one new fetch and changes neither the
\* batch, the cursor nor noMore, so it does not bring the card view back;
\* the card view returns only with the arrival of a fetch response that
\* carries a non-empty list.
C15_ExhaustedOffersOnlyLoadMore ==
  [][View = "exhausted"
       => /\ last'.op \notin {"handleSwipe", "tryAgain"}
          /\ Len(swipes') <= Len(swipes)
          /\ last'.op = "loadMore"
               => /\ Len(fetches') = Len(fetches) + 1
                  /\ UNCHANGED <<recommendations, currentIndex, noMore>>
                  /\ View' \in {"exhausted", "loading"}
          /\ View' = "ready" => last' = Op("fetchDone", "list")]_vars

\* C15 witness: Load More was clicked on a finished batch; its fetch is in
\* flight and the view is still "All caught up!".
C15_Witness ==
  /\ last = Op("loadMore", "")
  /\ noMore
  /\ Len(recommendations) > 0
  /\ fetches # <<>>
  /\ View = "exhausted"

\* C16: the scenario on the batch [A, B, C], step by step.  Like A answered
\* 2xx: cursor 1, B shown.  Dislike B answered with HTTP 500 (every earlier
\* write having been answered 2xx): the cursor stays 1 and B is still shown
\* in the card view.  Dislike B answered 2xx: cursor 2,
\* C shown.  Like C answered 2xx: cursor 3 = len(batch), Exhausted.
C16_ScenarioABC ==
  [][\A i \in 1..Len(swipes) :
       IsAckOf(i) =>
         LET s == swipes[i] IN
         /\ (s.idx = 0 /\ s.liked /\ s.status = "ok")
              => currentIndex' = 1 /\ current' = ScenarioBatch[2]
         /\ (s.idx = 1 /\ ~s.liked /\ s.status = "error" /\ cleanBatch)
              => /\ currentIndex' = 1
                 /\ current' = ScenarioBatch[2]
                 /\ View' = "ready"
         /\ (s.idx = 1 /\ ~s.liked /\ s.status = "ok")
              => currentIndex' = 2 /\ current' = ScenarioBatch[3]
         /\ (s.idx = 2 /\ s.liked /\ s.status = "ok")
              => /\ currentIndex' = Len(ScenarioBatch)
                 /\ View' = "exhausted"]_vars

\* The step is the arrival of the response of read i.
IsReadArrival(i) ==
  /\ i \in 1..Len(reads)
  /\ reads[i].phase = "answered"
  /\ reads' = RemoveAt(reads, i)

\* The step is the continuation of updateInteraction after PUT i was answered.
IsPutReturn(i) ==
  /\ i \in 1..Len(puts)
  /\ puts' = RemoveAt(puts, i)
  /\ last'.op = "putReturns"

\* C17: the displayed liked and disliked lists are disjoint in every state,
\* and whenever one of them changes both are replaced by the two lists of
\* one and the same response.
C17_ListsDisjointFromOneResponse ==
  /\ [](historyLiked \cap historyDisliked = {})
  /\ [][(historyLiked' # historyLiked \/ historyDisliked' # historyDisliked)
          => \E i \in 1..Len(reads) :
               /\ IsReadArrival(i)
               /\ historyLiked' = reads[i].liked
               /\ historyDisliked' = reads[i].disliked]_vars

\* C17 witness: both lists are displayed non-empty after an update, while the
\* display lags behind the server (a target has changed sides since).
C17_Witness ==
  /\ last.op = "updateDone"
  /\ historyLiked # {}
  /\ historyDisliked # {}
  /\ \E t \in historyLiked : interactions[t] = Dislike

\* C18: when the list read of updateInteraction(t, s) arrives with the lists,
\* the PUT having been answered 2xx and no other write having reached the
\* server between the PUT and the read, t is displayed in liked iff s = 1,
\* in disliked iff s = 0, in neither iff s = -1, and the update is finished.
C18_StatusRoundTrip ==
  [][\A i \in 1..Len(reads) :
       (/\ IsReadArrival(i)
        /\ reads[i].target # NoTarget
        /\ reads[i].clean
        /\ reads[i].body = "lists")
         => /\ reads[i].target \in historyLiked' <=> reads[i].newStatus = Like
            /\ reads[i].target \in historyDisliked' <=> reads[i].newStatus = Dislike
            /\ reads[i].newStatus = Removed
                 => reads[i].target \notin historyLiked' \cup historyDisliked'
            /\ updating' = NoTarget]_vars

\* C18 witness: a round trip has completed that moved a target to disliked.
C18_Witness ==
  /\ last = Op("updateDone", "roundTrip")
  /\ updating = NoTarget
  /\ \E t \in historyDisliked : interactions[t] = Dislike

\* C19: a PUT answered 2xx that carries the status the interaction already
\* has leaves the server's interactions, and so the lists it returns, as
\* they were; the call goes on like any other: the lists are read again
\* (loading is set and a read leaves) and the update is not yet finished.
C19_SameStatusIsNoOpAndRefreshes ==
  [][((\E i \in 1..Len(puts) : IsPutReturn(i)) /\ last'.kind = "same")
       => /\ interactions' = interactions
          /\ ServerLiked' = ServerLiked /\ ServerDisliked' = ServerDisliked
          /\ historyLoading'
          /\ Len(reads') = Len(reads) + 1
          /\ reads'[Len(reads')].phase = "sent"
          /\ reads'[Len(reads')].clean
          /\ updating' = updating]_vars

\* C19 witness: a PUT repeating the status was answered 2xx, its refresh is
\* on the way.
C19_Witness ==
  /\ last = Op("putReturns", "same")
  /\ historyLoading
  /\ \E i \in 1..Len(reads) :
       /\ reads[i].clean
       /\ interactions[reads[i].target] = reads[i].newStatus

IsFailedUpdateEnd ==
  \/ (\E i \in 1..Len(puts) : puts' = RemoveAt(puts, i)) /\ last'.op = "putRejects"
  \/ \E i \in 1..Len(reads) :
       /\ reads' = RemoveAt(reads, i)
       /\ reads[i].target # NoTarget
       /\ ~reads[i].putOk

\* C21: when a status update has failed (the PUT was rejected or answered
\* with an error status), the step that ends the update leaves the displayed
\* liked and disliked lists as they were and clears the updating marker.
C21_FailedUpdateKeepsLists ==
  [][IsFailedUpdateEnd
       => /\ UNCHANGED <<historyLiked, historyDisliked>>
          /\ updating' = NoTarget]_vars

\* The step completes a list read that failed: fetch() rejected, or the
\* answer came with an error status (a JSON error object or no JSON at all).
IsFailedRead ==
  \E i \in 1..Len(reads) :
    /\ reads' = RemoveAt(reads, i)
    /\ reads[i].phase = "sent" \/ reads[i].body # "lists"

\* C22: a list read that fails replaces no displayed list, and when the
\* viewer has interactions on the server the view after the failure does not
\* show two empty lists.
C22_FailedReadIsNotEmptyHistory ==
  [][IsFailedRead
       => /\ UNCHANGED <<historyLiked, historyDisliked>>
          /\ ~(/\ ~historyLoading'
               /\ historyLiked' = {} /\ historyDisliked' = {}
               /\ ServerLiked' \cup ServerDisliked' # {})]_vars

\* The targets of the updateInteraction calls that have not finished: their
\* PUT is in flight, or the read they await is.
PendingUpdates ==
  [i \in 1..(Len(puts) + Len(reads)) |->
     IF i <= Len(puts) THEN puts[i].target ELSE reads[i - Len(puts)].target]

\* C26: while an update on target t is pending, updating equals t (so that
\* t's buttons are disabled), and no two pending updates have the same target.
C26_OneUpdatePerTarget ==
  /\ \A i \in DOMAIN PendingUpdates :
       PendingUpdates[i] # NoTarget => updating = PendingUpdates[i]
  /\ \A i, j \in DOMAIN PendingUpdates :
       (i # j /\ PendingUpdates[i] # NoTarget)
         => PendingUpdates[i] # PendingUpdates[j]

\* C27: once no PUT and no list read is outstanding, every request so far
\* having got through and been answered 2xx with its body, the displayed
\* lists are the server's current interactions of the viewer.
C27_ConvergesToServer ==
  (pc = "mounted" /\ reads = <<>> /\ puts = <<>> /\ faultless)
    => /\ historyLiked = ServerLiked
       /\ historyDisliked = ServerDisliked

\* The step is the completion (answer or rejection) of recommendation fetch i.
IsFetchCompletion(i) ==
  /\ i \in 1..Len(fetches)
  /\ fetches' = MarkLate(fetches, i)
  /\ last'.op = "fetchDone"

\* C28: loading is true exactly while at least one fetch is in flight, and
\* the completion of a fetch that a later-issued fetch has overtaken leaves
\* the batch, the cursor and the exhaustion flag alone, so that once all
\* fetches have completed these are the ones of the most recently issued.
C28_LatestFetchWins ==
  /\ [](loading <=> fetches # <<>>)
  /\ [][(\E i \in 1..Len(fetches) : IsFetchCompletion(i) /\ fetches[i].late)
          => UNCHANGED <<recommendations, currentIndex, noMore>>]_vars

\* C29: every accepted decision (swiping set) is eventually followed by
\* swiping = null with the session Ready or Exhausted, and every fetch
\* (loading set) is eventually followed by loading = false.
C29_NeverStaysDeciding ==
  /\ (swiping # None) ~> (swiping = None /\ View \in {"ready", "exhausted"})
  /\ loading ~> ~loading

\* C29 (amended): every accepted decision is eventually followed by
\* swiping = null with the session Ready, Exhausted or, when a fetch has
\* failed in the meantime, Error; every fetch is eventually followed by
\* loading = false.
C29_DecidingEnds ==
  /\ (swiping # None) ~> (swiping = None /\ View \in {"ready", "exhausted", "error"})
  /\ loading ~> ~loading

\* C29 witness: a decision has ended, nothing is in flight, and the session
\* is in Error because a fetch failed while the decision was pending.
C29_Witness ==
  /\ last.op \in {"ack", "postRejects"}
  /\ swiping = None
  /\ ~loading
  /\ fetches = <<>>
  /\ swipes = <<>>
  /\ View = "error"

\* The role a viewer of type t acts on.
Counterpart(t) == IF t = "investor" THEN "company" ELSE "investor"

\* The request with the two roles exchanged.
SwapRoles(r) ==
  [r EXCEPT !.viewer = Counterpart(r.viewer),
            !.target = IF r.target = "" THEN "" ELSE Counterpart(r.target),
            !.from = IF r.from = "InvestorProfile" THEN "CompanyProfile"
                     ELSE IF r.from = "CompanyProfile" THEN "InvestorProfile"
                     ELSE r.from]

\* The request a viewer of type t builds for the inputs of request r.
Rebuild(t, r) ==
  LET item == Item(TargetPath(t), r.targetId)
      liked == r.body = LikeBody(TRUE)
      status == CHOOSE s \in Statuses : StatusBody(s) = r.body
  IN IF r.from = "SwipeRecommendations"
     THEN (IF r.method = "GET" THEN RecommendationsRequest(t, r.viewerId)
           ELSE SwipeRequest(t, r.viewerId, item, liked))
     ELSE IF r.from = "InteractionHistory"
     THEN (IF r.method = "GET" THEN InteractionsRequest(t, r.viewerId)
           ELSE UpdateRequest(t, r.viewerId, item, status))
     ELSE ProfileSwipeRequest(ProfilePage(t), r.viewerId, r.targetId, liked)

\* C23: every request of an investor viewer is under the investor path, and
\* its writes are against a company identified by its company_id; a company
\* viewer does the same against investors identified by user_id; and the
\* request of one direction is the request of the other with the roles
\* exchanged.
C23_RolePairing ==
  request # NoRequest
    => /\ request.viewer = type
       /\ request.viewerId \in Viewers
       /\ request.method # "GET"
            => /\ request.target = Counterpart(type)
               /\ request.targetId \in Candidates
       /\ request.method = "GET" => request.target = ""
       /\ SwapRoles(Rebuild(Counterpart(type), request)) = request

\* C23 witness: a company viewer has sent a status change against an investor.
C23_Witness ==
  /\ type = "company"
  /\ request.method = "PUT"
  /\ request.viewer = "company"
  /\ request.target = "investor"
  /\ request.targetId \in Candidates

\* The step is the completion (answer or rejection) of search i.
IsSearchCompletion(i) ==
  /\ i \in 1..Len(searches)
  /\ searches' = RemoveAt(searches, i)
  /\ last'.op = "searchDone"

\* C24: the response of a search issued for a query other than the present
\* one leaves the results alone, and once no timer is pending and no search
\* is in flight the results are those of the present query, or none (none
\* for an empty query).
C24_SearchCancelAndRestart ==
  /\ [][\A i \in 1..Len(searches) :
          (IsSearchCompletion(i) /\ searches[i].q # query)
            => UNCHANGED results]_vars
  /\ []((pc = "mounted" /\ timer = NoTimer /\ searches = <<>>)
          => results \in {Matches(Trim(query)), <<>>})

\* The step completes a profile lookup that failed: the request was rejected
\* or answered with a non-success status.
IsFailedLookup ==
  /\ \E i \in 1..Len(lookups) : lookups' = RemoveAt(lookups, i)
  /\ last'.op = "lookupDone"
  /\ last'.kind \in {"reject", "status"}

\* C25: a profile lookup that fails leaves the page in the error view with
\* loading false and the back action at hand; the error is never cleared; and
\* no lookup is issued by anything but the mount effect.
C25_FailedLookupIsPageError ==
  /\ [][IsFailedLookup
          => /\ profileError' # None
             /\ ~profileLoading'
             /\ ProfileView' = "error"]_vars
  /\ []((pc = "mounted" /\ ProfileView = "error") => ENABLED GoBack)
  /\ [][profileError # None => (profileError' # None /\ ProfileView' = "error")]_vars
  /\ [][Len(lookups') > Len(lookups) => pc = "init"]_vars

\* C25 witness: the only lookup was answered with an error status, nothing is
\* in flight and the page shows the error view.
C25_Witness ==
  /\ pc = "mounted"
  /\ last = Op("lookupDone", "status")
  /\ lookups = <<>>
  /\ profile = None
  /\ profileError = NotFound
  /\ ProfileView = "error"

\* The step is the completion (answer or rejection) of POST i of the page.
IsInteractionCompletion(i) ==
  /\ i \in 1..Len(posts)
  /\ posts' = RemoveAt(posts, i)
  /\ last'.op = "interactionDone"

\* C30: a like/pass POST leaves only when a viewer id is present, the viewer
\* type is the counterpart of the page's role and no POST is in flight;
\* interactionDone changes only from null, when a POST is answered 2xx, to
\* the value of that decision; once it is set no POST leaves; and a POST that
\* is rejected or answered with an error status leaves interactionDone null
\* and interacting false.
C30_ProfileInteraction ==
  /\ [][Len(posts') > Len(posts)
          => /\ viewerId # Undefined
             /\ viewerType = Counterpart(page)
             /\ posts = <<>>
             /\ ~interacting
             /\ interactionDone = None]_vars
  /\ [][interactionDone' # interactionDone
          => /\ interactionDone = None
             /\ last' = Op("interactionDone", "ok")
             /\ \E i \in 1..Len(posts) :
                  /\ IsInteractionCompletion(i)
                  /\ interactionDone' = (IF posts[i].liked THEN "liked" ELSE "disliked")]_vars
  /\ [][((\E i \in 1..Len(posts) : IsInteractionCompletion(i)) /\ last'.kind # "ok")
          => /\ interactionDone' = None
             /\ ~interacting']_vars

\* C30 witness: a like was sent from the page and answered 2xx: interactionDone
\* is set, nothing is in flight and the buttons are gone.
C30_Witness ==
  /\ last = Op("interactionDone", "ok")
  /\ interactionDone = "liked"
  /\ ~interacting
  /\ posts = <<>>
  /\ ~ButtonsRendered

====
